---- MODULE Spec2Model ----
(***************************************************************************)
(* Model of setup.py: the five-step provisioning script (bucket, queue,    *)
(* queue access policy, bucket event notification, identity with policy    *)
(* and access key) run against a cloud provider.                           *)
(*                                                                         *)
(* The script is sequential.  Every remote call is one action: it either   *)
(* fails (the provider rejects it, or the network does; a failed call has  *)
(* no effect on the provider) or takes effect.  What happens after a       *)
(* failure is decided by the try/except blocks of the script.              *)
(*                                                                         *)
(* Strings that the claims look into are kept structured:                  *)
(*   an ARN  "arn:aws:sqs:r:a:n"  is  <<"arn","aws","sqs",r,a,n>>;         *)
(*   json.dumps(d) is <<"json", d>>; None is <<>>.                         *)
(***************************************************************************)
EXTENDS Integers, Sequences, FiniteSets, TLC

\* ------------------------------------------------------------ bounds
\* Number of times the script is run against the same provider account.
MaxRuns == 3

\* ------------------------------------------------------------ configuration
\* setup.py:4-9, "Change these variables as needed".  The bucket, identity
\* and policy names are kept fixed over all runs; the region and the queue
\* name are chosen by the operator at the start of every run.
DefaultRegion == "us-east-1"
Regions == {"us-east-1", "eu-west-1"}
QueueNames == {"q1", "q2"}
BUCKET_NAME == "b1"
IAM_USER_NAME == "u1"
IAM_POLICY_NAME == "p1"

\* The provider account that owns everything the script creates.
AccountId == "123456789012"

None == <<>>
NoKey == [AccessKeyId |-> None, SecretAccessKey |-> None]

\* The five steps of main(), in call order.
Steps == <<"create_s3_bucket", "create_sqs_queue", "attach_sqs_policy",
           "configure_s3_notifications", "create_iam_user">>

VARIABLES
    \* --- provider state (remote)
    buckets,      \* bucket name -> [Location, NotificationConfiguration]
    queues,       \* queue url -> [QueueArn, VisibilityTimeout, MessageRetentionPeriod, Policy]
    users,        \* user name -> [AttachedPolicies, AccessKeys]
    policies,     \* policy arn -> policy document (json)
    \* --- configuration of the current run
    AWS_REGION, QUEUE_NAME,
    \* --- the script
    pc,           \* the remote call (or print) the script is about to make
    caller,       \* who called create_sqs_queue(): "main" or "attach_sqs_policy"
    queue_url, queue_arn,   \* main()'s locals
    response_url,           \* create_sqs_queue()'s local queue_url
    attach_url,             \* attach_sqs_policy()'s local queue_url
    policy_arn, access_key, \* create_iam_user()'s locals
    \* --- what an observer of the run sees
    runs,         \* number of runs started
    invoked,      \* the steps of main() entered in this run, in order
    issued,       \* the steps (1..5) that issued a remote call in this run
    outcome,      \* step -> "pending" | "ok" | "NameCollision" | "NotFound" | "Error"
    requests,     \* the create-bucket requests sent in this run, in order
    wired,        \* the queue identifier passed to the latest successful event wiring
    emitted,      \* secrets printed so far, over all runs, in order
    complete,     \* the final "setup complete" line was printed in this run
    prev          \* snapshot taken when the current run started

provider == [buckets |-> buckets, queues |-> queues, users |-> users, policies |-> policies]

vars == <<buckets, queues, users, policies, AWS_REGION, QUEUE_NAME, pc, caller,
          queue_url, queue_arn, response_url, attach_url, policy_arn, access_key,
          runs, invoked, issued, outcome, requests, wired, emitted, complete, prev>>

providerVars == <<buckets, queues, users, policies>>
configVars == <<AWS_REGION, QUEUE_NAME>>
localVars == <<queue_url, queue_arn, response_url, attach_url, policy_arn, access_key>>

\* ------------------------------------------------------------ identifiers
\* The provider's resource names.
BucketArn(name) == <<"arn", "aws", "s3", "", "", name>>
QueueUrlOf(region, name) == <<"https", "sqs", region, AccountId, name>>
QueueArnOf(url) == <<"arn", "aws", "sqs", url[3], url[4], url[5]>>
PolicyArnOf(name) == <<"arn", "aws", "iam", "", AccountId, "policy/" \o name>>

json_dumps(doc) == <<"json", doc>>
json_loads(s) == s[2]

\* ------------------------------------------------------------ requests built by the script
\* create_s3_bucket: the keyword arguments of s3.create_bucket.
create_bucket_noconstraint(region) == [Bucket |-> BUCKET_NAME]

create_bucket_request(region) ==
    IF region = "us-east-1"
    THEN [Bucket |-> BUCKET_NAME]
    ELSE [Bucket |-> BUCKET_NAME,
          CreateBucketConfiguration |-> [LocationConstraint |-> region]]

\* create_sqs_queue: the Attributes of sqs.create_queue.
queue_attributes_short == [VisibilityTimeout |-> "30", MessageRetentionPeriod |-> "1209600"]

queue_attributes == [VisibilityTimeout |-> "300", MessageRetentionPeriod |-> "1209600"]

\* The queue reference create_iam_user assembles by hand (f-string, line 112):
\* the account segment is "*" and the name segment starts with a space.
hand_assembled_queue_ref(region, name) == <<"arn", "aws", "sqs", region, "*", " " \o name>>

\* attach_sqs_policy: sqs_policy.
sqs_policy_unscoped(arn) ==
    [Version |-> "2012-10-17",
     Statement |-> <<[Effect |-> "Allow",
                      Principal |-> [Service |-> "s3.amazonaws.com"],
                      Action |-> "sqs:SendMessage",
                      Resource |-> arn]>>]

sqs_policy(arn) ==
    [Version |-> "2012-10-17",
     Statement |-> <<[Effect |-> "Allow",
                      Principal |-> [Service |-> "s3.amazonaws.com"],
                      Action |-> "sqs:SendMessage",
                      Resource |-> arn,
                      Condition |-> [ArnLike |-> [SourceArn |-> BucketArn(BUCKET_NAME)]]]>>]

\* configure_s3_notifications: s3_notification_config.
s3_notification_config_two_mappings(arn) ==
    [QueueConfigurations |->
        <<[QueueArn |-> arn, Events |-> {"s3:ObjectCreated:*"}],
          [QueueArn |-> arn, Events |-> {"s3:ObjectRemoved:*"}]>>]

s3_notification_config(arn) ==
    [QueueConfigurations |->
        <<[QueueArn |-> arn, Events |-> {"s3:ObjectCreated:*"}]>>]

\* create_iam_user: policy_document.
policy_document ==
    [Version |-> "2012-10-17",
     Statement |->
        <<[Effect |-> "Allow",
           Action |-> {"s3:PutObject", "s3:GetObject"},
           Resource |-> <<"arn", "aws", "s3", "", "", BUCKET_NAME \o "/*">>],
          [Effect |-> "Allow",
           Action |-> {"sqs:ReceiveMessage", "sqs:DeleteMessage", "sqs:GetQueueAttributes"},
           Resource |-> hand_assembled_queue_ref(AWS_REGION, QUEUE_NAME)]>>]

\* ------------------------------------------------------------ control flow of the script
\* Where the script is after an exception raised by a remote call made within fn:
\*  create_s3_bucket  catches it (line 30) and returns; main goes on to step 2;
\*  create_sqs_queue  catches it (line 53) and returns None; its caller unpacks the
\*                    result into two names (line 140, line 71), which raises
\*                    TypeError, and neither main nor attach_sqs_policy catches it;
\*  attach_sqs_policy, configure_s3_notifications have no try: the run dies;
\*  create_iam_user   catches it (line 134) and returns; main prints the last line.
on_exception_swallow_wiring(fn) ==
    CASE fn = "create_s3_bucket" -> "sqs.create_queue"
      [] fn = "create_sqs_queue" -> "aborted"
      [] fn = "attach_sqs_policy" -> "aborted"
      [] fn = "configure_s3_notifications" -> "iam.create_user"
      [] fn = "create_iam_user" -> "print_complete"

\* Variants in which a step that has to stop the run lets it go on instead.
on_exception_queue_none_pair(fn) ==
    CASE fn = "create_s3_bucket" -> "sqs.create_queue"
      [] fn = "create_sqs_queue" -> "sqs.set_queue_attributes"
      [] fn = "attach_sqs_policy" -> "aborted"
      [] fn = "configure_s3_notifications" -> "aborted"
      [] fn = "create_iam_user" -> "print_complete"

on_exception_skip_failed_lookup(fn) ==
    CASE fn = "create_s3_bucket" -> "sqs.create_queue"
      [] fn = "create_sqs_queue" -> "s3.put_bucket_notification_configuration"
      [] fn = "attach_sqs_policy" -> "aborted"
      [] fn = "configure_s3_notifications" -> "aborted"
      [] fn = "create_iam_user" -> "print_complete"

on_exception_swallow_binding(fn) ==
    CASE fn = "create_s3_bucket" -> "sqs.create_queue"
      [] fn = "create_sqs_queue" -> "aborted"
      [] fn = "attach_sqs_policy" -> "s3.put_bucket_notification_configuration"
      [] fn = "configure_s3_notifications" -> "aborted"
      [] fn = "create_iam_user" -> "print_complete"

on_exception(fn) ==
    CASE fn = "create_s3_bucket" -> "sqs.create_queue"
      [] fn = "create_sqs_queue" -> "aborted"
      [] fn = "attach_sqs_policy" -> "aborted"
      [] fn = "configure_s3_notifications" -> "aborted"
      [] fn = "create_iam_user" -> "print_complete"

\* The statement create_iam_user executes after the call `call` returned (ok)
\* or raised (~ok): the try block runs its calls in sequence and leaves at the
\* first exception.
iam_next_keep_going(call, ok) ==
    CASE call = "iam.create_user" -> "iam.create_policy"
      [] call = "iam.create_policy" -> "iam.attach_user_policy"
      [] call = "iam.attach_user_policy" -> "iam.create_access_key"
      [] call = "iam.create_access_key" -> IF ok THEN "print_access_key" ELSE "print_complete"

\* Variants of the try block: one treats a failed create_user as "the identity
\* is there already" and carries on, one ignores a failed attach_user_policy.
iam_next_tolerate_existing_user(call, ok) ==
    IF call = "iam.create_user" THEN "iam.create_policy"
    ELSE IF ~ok THEN on_exception("create_iam_user")
    ELSE CASE call = "iam.create_policy" -> "iam.attach_user_policy"
           [] call = "iam.attach_user_policy" -> "iam.create_access_key"
           [] call = "iam.create_access_key" -> "print_access_key"

iam_next_skip_attach_failure(call, ok) ==
    IF call = "iam.attach_user_policy" THEN "iam.create_access_key"
    ELSE IF ~ok THEN on_exception("create_iam_user")
    ELSE CASE call = "iam.create_user" -> "iam.create_policy"
           [] call = "iam.create_policy" -> "iam.attach_user_policy"
           [] call = "iam.create_access_key" -> "print_access_key"

iam_next(call, ok) ==
    IF ~ok THEN on_exception("create_iam_user")
    ELSE CASE call = "iam.create_user" -> "iam.create_policy"
           [] call = "iam.create_policy" -> "iam.attach_user_policy"
           [] call = "iam.attach_user_policy" -> "iam.create_access_key"
           [] call = "iam.create_access_key" -> "print_access_key"

\* Lines 130-132: the key id and the secret are printed, once.
print_access_key_twice(out, key) == Append(Append(out, key.SecretAccessKey), key.SecretAccessKey)

print_access_key(out, key) == Append(out, key.SecretAccessKey)

\* ------------------------------------------------------------ bookkeeping helpers
StepNo(fn) == CHOOSE i \in 1..5 : Steps[i] = fn

Enter(fn) == IF invoked # <<>> /\ invoked[Len(invoked)] = fn THEN invoked ELSE Append(invoked, fn)

Failed == {s \in 1..5 : outcome[s] \notin {"pending", "ok"}}
Collided == {s \in 1..5 : outcome[s] = "NameCollision"}

AllKeys == UNION {users[u].AccessKeys : u \in DOMAIN users}

\* ------------------------------------------------------------ the provider's answers
\* Every remote call may fail for reasons outside the script ("Error": network,
\* permissions); otherwise the provider answers from its state.
WellFormedLocation(region, req) ==
    IF region = DefaultRegion
    THEN "CreateBucketConfiguration" \notin DOMAIN req
    ELSE /\ "CreateBucketConfiguration" \in DOMAIN req
         /\ req.CreateBucketConfiguration.LocationConstraint = region

\* A bucket the caller already owns: the provider reports the collision, or (as
\* the default region does) accepts the request without effect.
CreateBucketResults(region, req) ==
    {"Error"} \cup
    (IF ~WellFormedLocation(region, req) THEN {"MalformedConfiguration"}
     ELSE IF req.Bucket \in DOMAIN buckets THEN {"NameCollision", "ok"}
     ELSE {"ok"})

\* Creating a queue that exists with the same attributes returns the existing queue.
CreateQueueResults(url, attrs) ==
    {"Error"} \cup
    (IF /\ url \in DOMAIN queues
        /\ \/ queues[url].VisibilityTimeout # attrs.VisibilityTimeout
           \/ queues[url].MessageRetentionPeriod # attrs.MessageRetentionPeriod
     THEN {"NameCollision"}
     ELSE {"ok"})

QueueResults(url) == {"Error"} \cup (IF url \in DOMAIN queues THEN {"ok"} ELSE {"NotFound"})

PutNotificationResults(bucket, cfg) ==
    {"Error"} \cup
    (IF bucket \notin DOMAIN buckets THEN {"NotFound"}
     ELSE IF \E i \in 1..Len(cfg.QueueConfigurations) :
                \A u \in DOMAIN queues : queues[u].QueueArn # cfg.QueueConfigurations[i].QueueArn
          THEN {"MalformedConfiguration"}
     ELSE {"ok"})

CreateUserResults(name) ==
    {"Error"} \cup (IF name \in DOMAIN users THEN {"NameCollision"} ELSE {"ok"})

CreatePolicyResults(name) ==
    {"Error"} \cup (IF PolicyArnOf(name) \in DOMAIN policies THEN {"NameCollision"} ELSE {"ok"})

AttachResults(name, arn) ==
    {"Error"} \cup
    (IF name \in DOMAIN users /\ arn \in DOMAIN policies THEN {"ok"} ELSE {"NotFound"})

CreateKeyResults(name) ==
    {"Error"} \cup (IF name \in DOMAIN users THEN {"ok"} ELSE {"NotFound"})

\* ------------------------------------------------------------ initial state
NoProvider == [buckets |-> <<>>, queues |-> <<>>, users |-> <<>>, policies |-> <<>>]

Init ==
    /\ buckets = <<>> /\ queues = <<>> /\ users = <<>> /\ policies = <<>>
    /\ AWS_REGION = "us-east-1" /\ QUEUE_NAME = "q1"
    /\ pc = "idle" /\ caller = "main"
    /\ queue_url = None /\ queue_arn = None /\ response_url = None /\ attach_url = None
    /\ policy_arn = None /\ access_key = NoKey
    /\ runs = 0 /\ invoked = <<>> /\ issued = {}
    /\ outcome = [s \in 1..5 |-> "pending"]
    /\ requests = <<>> /\ wired = None /\ emitted = <<>> /\ complete = FALSE
    /\ prev = [provider |-> NoProvider, region |-> "us-east-1", queue |-> "q1", ok |-> FALSE]

\* ------------------------------------------------------------ actions
\* The operator sets the region and the queue name and starts the script.
StartRun(region, name) ==
    /\ pc \in {"idle", "done", "aborted"}
    /\ runs < MaxRuns
    /\ prev' = [provider |-> provider, region |-> AWS_REGION, queue |-> QUEUE_NAME,
                ok |-> pc = "done" /\ \A s \in 1..5 : outcome[s] = "ok"]
    /\ AWS_REGION' = region /\ QUEUE_NAME' = name
    /\ pc' = "s3.create_bucket" /\ caller' = "main"
    /\ queue_url' = None /\ queue_arn' = None /\ response_url' = None /\ attach_url' = None
    /\ policy_arn' = None /\ access_key' = NoKey
    /\ runs' = runs + 1 /\ invoked' = <<>> /\ issued' = {}
    /\ outcome' = [s \in 1..5 |-> "pending"]
    /\ requests' = <<>> /\ complete' = FALSE
    /\ UNCHANGED <<providerVars, wired, emitted>>

\* create_s3_bucket(): s3.create_bucket.
S3CreateBucket ==
    /\ pc = "s3.create_bucket"
    /\ LET req == create_bucket_request(AWS_REGION) IN
       \E res \in CreateBucketResults(AWS_REGION, req) :
          /\ buckets' = IF res = "ok" /\ req.Bucket \notin DOMAIN buckets
                        THEN buckets @@ (req.Bucket :>
                                [Location |-> AWS_REGION,
                                 NotificationConfiguration |-> [QueueConfigurations |-> <<>>]])
                        ELSE buckets
          /\ requests' = Append(requests, req)
          /\ outcome' = [outcome EXCEPT ![1] = res]
          /\ pc' = IF res = "ok" THEN "sqs.create_queue" ELSE on_exception("create_s3_bucket")
    /\ invoked' = Enter("create_s3_bucket")
    /\ issued' = issued \cup {1}
    /\ UNCHANGED <<queues, users, policies, configVars, caller, localVars,
                   runs, wired, emitted, complete, prev>>

\* create_sqs_queue(): sqs.create_queue.  Called by main (step 2) and again by
\* attach_sqs_policy (step 3).
SqsCreateQueue ==
    /\ pc = "sqs.create_queue"
    /\ LET step == IF caller = "main" THEN 2 ELSE 3
           url == QueueUrlOf(AWS_REGION, QUEUE_NAME)
           attrs == queue_attributes
       IN
       /\ invoked' = Enter(Steps[step])
       /\ issued' = issued \cup {step}
       /\ \E res \in CreateQueueResults(url, attrs) :
            IF res = "ok"
            THEN /\ queues' = IF url \in DOMAIN queues THEN queues
                              ELSE queues @@ (url :>
                                     [QueueArn |-> QueueArnOf(url),
                                      VisibilityTimeout |-> attrs.VisibilityTimeout,
                                      MessageRetentionPeriod |-> attrs.MessageRetentionPeriod,
                                      Policy |-> None])
                 /\ response_url' = url
                 /\ pc' = "sqs.get_queue_attributes"
                 /\ UNCHANGED outcome
            ELSE /\ outcome' = [outcome EXCEPT ![step] = res]
                 /\ pc' = on_exception("create_sqs_queue")
                 /\ UNCHANGED <<queues, response_url>>
    /\ UNCHANGED <<buckets, users, policies, configVars, caller, queue_url, queue_arn,
                   attach_url, policy_arn, access_key, runs, requests, wired, emitted,
                   complete, prev>>

\* create_sqs_queue(): sqs.get_queue_attributes, and the return to the caller.
SqsGetQueueAttributes ==
    /\ pc = "sqs.get_queue_attributes"
    /\ LET step == IF caller = "main" THEN 2 ELSE 3 IN
       \E res \in QueueResults(response_url) :
          IF res = "ok"
          THEN IF caller = "main"
               THEN /\ queue_url' = response_url
                    /\ queue_arn' = queues[response_url].QueueArn
                    /\ outcome' = [outcome EXCEPT ![2] = "ok"]
                    /\ caller' = "attach_sqs_policy"
                    /\ pc' = "sqs.create_queue"
                    /\ UNCHANGED attach_url
               ELSE /\ attach_url' = response_url
                    /\ pc' = "sqs.set_queue_attributes"
                    /\ UNCHANGED <<queue_url, queue_arn, outcome, caller>>
          ELSE /\ outcome' = [outcome EXCEPT ![step] = res]
               /\ pc' = on_exception("create_sqs_queue")
               /\ UNCHANGED <<queue_url, queue_arn, attach_url, caller>>
    /\ UNCHANGED <<providerVars, configVars, response_url, policy_arn, access_key,
                   runs, invoked, issued, requests, wired, emitted, complete, prev>>

\* attach_sqs_policy(queue_arn): sqs.set_queue_attributes.
SqsSetQueueAttributes ==
    /\ pc = "sqs.set_queue_attributes"
    /\ \E res \in QueueResults(attach_url) :
          IF res = "ok"
          THEN /\ queues' = [queues EXCEPT ![attach_url].Policy = json_dumps(sqs_policy(queue_arn))]
               /\ outcome' = [outcome EXCEPT ![3] = "ok"]
               /\ pc' = "s3.put_bucket_notification_configuration"
          ELSE /\ outcome' = [outcome EXCEPT ![3] = res]
               /\ pc' = on_exception("attach_sqs_policy")
               /\ UNCHANGED queues
    /\ UNCHANGED <<buckets, users, policies, configVars, caller, localVars,
                   runs, invoked, issued, requests, wired, emitted, complete, prev>>

\* configure_s3_notifications(queue_arn): s3.put_bucket_notification_configuration.
S3PutBucketNotification ==
    /\ pc = "s3.put_bucket_notification_configuration"
    /\ LET cfg == s3_notification_config(queue_arn) IN
       \E res \in PutNotificationResults(BUCKET_NAME, cfg) :
          IF res = "ok"
          THEN /\ buckets' = [buckets EXCEPT ![BUCKET_NAME].NotificationConfiguration = cfg]
               /\ wired' = queue_arn
               /\ outcome' = [outcome EXCEPT ![4] = "ok"]
               /\ pc' = "iam.create_user"
          ELSE /\ outcome' = [outcome EXCEPT ![4] = res]
               /\ pc' = on_exception("configure_s3_notifications")
               /\ UNCHANGED <<buckets, wired>>
    /\ invoked' = Enter("configure_s3_notifications")
    /\ issued' = issued \cup {4}
    /\ UNCHANGED <<queues, users, policies, configVars, caller, localVars,
                   runs, requests, emitted, complete, prev>>

\* create_iam_user(queue_arn): iam.create_user.
IamCreateUser ==
    /\ pc = "iam.create_user"
    /\ \E res \in CreateUserResults(IAM_USER_NAME) :
          /\ users' = IF res = "ok"
                      THEN users @@ (IAM_USER_NAME :> [AttachedPolicies |-> {}, AccessKeys |-> {}])
                      ELSE users
          /\ outcome' = IF res = "ok" THEN outcome ELSE [outcome EXCEPT ![5] = res]
          /\ pc' = iam_next("iam.create_user", res = "ok")
    /\ invoked' = Enter("create_iam_user")
    /\ issued' = issued \cup {5}
    /\ UNCHANGED <<buckets, queues, policies, configVars, caller, localVars,
                   runs, requests, wired, emitted, complete, prev>>

\* iam.create_policy with a compensation the script does not have: a failed call
\* removes the identity created just before it.
IamCreatePolicy_rollback ==
    /\ pc = "iam.create_policy"
    /\ \E res \in CreatePolicyResults(IAM_POLICY_NAME) :
          /\ policies' = IF res = "ok"
                         THEN policies @@ (PolicyArnOf(IAM_POLICY_NAME) :> json_dumps(policy_document))
                         ELSE policies
          /\ users' = IF res = "ok" THEN users ELSE <<>>
          /\ policy_arn' = IF res = "ok" THEN PolicyArnOf(IAM_POLICY_NAME) ELSE policy_arn
          /\ outcome' = IF res = "ok" THEN outcome ELSE [outcome EXCEPT ![5] = res]
          /\ pc' = iam_next("iam.create_policy", res = "ok")
    /\ UNCHANGED <<buckets, queues, configVars, caller, queue_url, queue_arn,
                   response_url, attach_url, access_key, runs, invoked, issued, requests,
                   wired, emitted, complete, prev>>

\* create_iam_user: iam.create_policy.
IamCreatePolicy ==
    /\ pc = "iam.create_policy"
    /\ \E res \in CreatePolicyResults(IAM_POLICY_NAME) :
          /\ policies' = IF res = "ok"
                         THEN policies @@ (PolicyArnOf(IAM_POLICY_NAME) :> json_dumps(policy_document))
                         ELSE policies
          /\ policy_arn' = IF res = "ok" THEN PolicyArnOf(IAM_POLICY_NAME) ELSE policy_arn
          /\ outcome' = IF res = "ok" THEN outcome ELSE [outcome EXCEPT ![5] = res]
          /\ pc' = iam_next("iam.create_policy", res = "ok")
    /\ UNCHANGED <<buckets, queues, users, configVars, caller, queue_url, queue_arn,
                   response_url, attach_url, access_key, runs, invoked, issued, requests,
                   wired, emitted, complete, prev>>

\* create_iam_user: iam.attach_user_policy.
IamAttachUserPolicy ==
    /\ pc = "iam.attach_user_policy"
    /\ \E res \in AttachResults(IAM_USER_NAME, policy_arn) :
          /\ users' = IF res = "ok"
                      THEN [users EXCEPT ![IAM_USER_NAME].AttachedPolicies = @ \cup {policy_arn}]
                      ELSE users
          /\ outcome' = IF res = "ok" THEN outcome ELSE [outcome EXCEPT ![5] = res]
          /\ pc' = iam_next("iam.attach_user_policy", res = "ok")
    /\ UNCHANGED <<buckets, queues, policies, configVars, caller, localVars,
                   runs, invoked, issued, requests, wired, emitted, complete, prev>>

\* create_iam_user: iam.create_access_key.
IamCreateAccessKey ==
    /\ pc = "iam.create_access_key"
    /\ \E res \in CreateKeyResults(IAM_USER_NAME) :
          LET n == Cardinality(AllKeys) + 1
              key == [AccessKeyId |-> <<"AKIA", n>>, SecretAccessKey |-> <<"secret", n>>]
          IN
          /\ users' = IF res = "ok"
                      THEN [users EXCEPT ![IAM_USER_NAME].AccessKeys = @ \cup {key}]
                      ELSE users
          /\ access_key' = IF res = "ok" THEN key ELSE access_key
          /\ outcome' = IF res = "ok" THEN outcome ELSE [outcome EXCEPT ![5] = res]
          /\ pc' = iam_next("iam.create_access_key", res = "ok")
    /\ UNCHANGED <<buckets, queues, policies, configVars, caller, queue_url, queue_arn,
                   response_url, attach_url, policy_arn, runs, invoked, issued, requests,
                   wired, emitted, complete, prev>>

\* create_iam_user: the three prints after the key was minted, and the return.
PrintAccessKey ==
    /\ pc = "print_access_key"
    /\ emitted' = print_access_key(emitted, access_key)
    /\ outcome' = [outcome EXCEPT ![5] = "ok"]
    /\ pc' = "print_complete"
    /\ UNCHANGED <<providerVars, configVars, caller, localVars, runs, invoked, issued,
                   requests, wired, complete, prev>>

\* main(): the last print.
PrintComplete ==
    /\ pc = "print_complete"
    /\ complete' = TRUE
    /\ pc' = "done"
    /\ UNCHANGED <<providerVars, configVars, caller, localVars, runs, invoked, issued,
                   outcome, requests, wired, emitted, prev>>

Next ==
    \/ \E region \in Regions, name \in QueueNames : StartRun(region, name)
    \/ S3CreateBucket
    \/ SqsCreateQueue
    \/ SqsGetQueueAttributes
    \/ SqsSetQueueAttributes
    \/ S3PutBucketNotification
    \/ IamCreateUser
    \/ IamCreatePolicy
    \/ IamAttachUserPolicy
    \/ IamCreateAccessKey
    \/ PrintAccessKey
    \/ PrintComplete

Spec == Init /\ [][Next]_vars

\* ------------------------------------------------------------ types
TypeOK ==
    /\ pc \in {"idle", "s3.create_bucket", "sqs.create_queue", "sqs.get_queue_attributes",
               "sqs.set_queue_attributes", "s3.put_bucket_notification_configuration",
               "iam.create_user", "iam.create_policy", "iam.attach_user_policy",
               "iam.create_access_key", "print_access_key", "print_complete",
               "done", "aborted"}
    /\ caller \in {"main", "attach_sqs_policy"}
    /\ AWS_REGION \in Regions /\ QUEUE_NAME \in QueueNames
    /\ runs \in 0..MaxRuns
    /\ issued \subseteq 1..5
    /\ DOMAIN buckets \subseteq {BUCKET_NAME}
    /\ DOMAIN users \subseteq {IAM_USER_NAME}
    /\ complete \in BOOLEAN

\* ------------------------------------------------------------ properties
RunEnded == pc \in {"done", "aborted"}
NoCallFailed == \A s \in 1..5 : outcome[s] = "ok"
Count(seq, x) == Cardinality({i \in 1..Len(seq) : seq[i] = x})
CurrentQueueUrl == QueueUrlOf(AWS_REGION, QUEUE_NAME)
QueueMappings(b) == b.NotificationConfiguration.QueueConfigurations

\* C1: a run that starts from a provider with no resources, in the default
\* region, and in which no remote call fails, ends with: the bucket created by a
\* request without location constraint; the queue existing with visibility
\* timeout 300 and retention 1209600; the queue's policy conditioned on the
\* bucket's ARN; the bucket's notification configuration pointing at the queue's
\* resolved identifier; the identity existing with exactly one attached policy
\* and exactly one access key.
C1_CleanRun ==
    /\ pc = "done"
    /\ prev.provider = NoProvider
    /\ AWS_REGION = DefaultRegion
    /\ NoCallFailed

C1_EndToEnd ==
    C1_CleanRun =>
        /\ Len(requests) = 1
        /\ "CreateBucketConfiguration" \notin DOMAIN requests[1]
        /\ BUCKET_NAME \in DOMAIN buckets
        /\ CurrentQueueUrl \in DOMAIN queues
        /\ queues[CurrentQueueUrl].VisibilityTimeout = "300"
        /\ queues[CurrentQueueUrl].MessageRetentionPeriod = "1209600"
        /\ queues[CurrentQueueUrl].Policy # None
        /\ json_loads(queues[CurrentQueueUrl].Policy).Statement[1].Condition.ArnLike.SourceArn
              = BucketArn(BUCKET_NAME)
        /\ Len(QueueMappings(buckets[BUCKET_NAME])) = 1
        /\ QueueMappings(buckets[BUCKET_NAME])[1].QueueArn = queues[CurrentQueueUrl].QueueArn
        /\ IAM_USER_NAME \in DOMAIN users
        /\ Cardinality(users[IAM_USER_NAME].AttachedPolicies) = 1
        /\ Cardinality(users[IAM_USER_NAME].AccessKeys) = 1

C1_Witness == C1_CleanRun /\ complete

\* C2: every step catches the errors of its remote calls and returns normally to
\* main(), so every run, whatever fails, ends normally having invoked all five
\* steps in order.
C2_AllStepsAlwaysInvoked ==
    RunEnded => (pc = "done" /\ invoked = Steps)

\* C3 (as claimed): if a remote call fails in any step, no remote call of a later
\* step is issued in that run.
C3_AnyFailureAborts ==
    \A f \in Failed : \A s \in issued : s <= f

\* C3 (amended): a failed remote call in queue creation, access binding or event
\* wiring aborts the run there, and no remote call of a later step is issued; the
\* run is aborted in no other case: a failed call in bucket creation or in
\* identity provisioning is caught and the run goes on.
C3_FailureInSteps2to4Aborts ==
    /\ \A f \in Failed \cap {2, 3, 4} : \A s \in issued : s <= f
    /\ (Failed \cap {2, 3, 4} # {}) <=> (pc = "aborted")
    /\ (1 \in Failed /\ pc \notin {"s3.create_bucket", "sqs.create_queue"}) => 2 \in issued

C3_Witness ==
    /\ pc = "aborted"
    /\ outcome[1] = "Error"
    /\ outcome[4] = "Error"
    /\ issued = {1, 2, 3, 4}

\* C4: over any number of runs with the same identity name, with any remote call
\* allowed to fail, the identity holds at most one access key, and a run that
\* found the identity name taken has minted no key.
C4_AtMostOneKey ==
    /\ \A u \in DOMAIN users : Cardinality(users[u].AccessKeys) <= 1
    /\ outcome[5] = "NameCollision" => access_key = NoKey

C4_Witness ==
    /\ runs >= 2
    /\ pc = "done"
    /\ outcome[5] = "NameCollision"
    /\ Cardinality(AllKeys) = 1

\* C5: the second of two runs with identical inputs, the first fully successful.
C5_SecondRun ==
    /\ prev.ok
    /\ prev.region = AWS_REGION
    /\ prev.queue = QUEUE_NAME

C5_SecondRunEnded ==
    /\ C5_SecondRun
    /\ pc = "done"
    /\ \A s \in 1..5 : outcome[s] # "Error"

\* C5 (as claimed): in that second run bucket creation, queue creation and
\* identity creation each surface a name collision, and the provider state after
\* the run equals the state after the first run.
C5_AllThreeCollide ==
    C5_SecondRunEnded => ({1, 2, 5} \subseteq Collided /\ provider = prev.provider)

\* C5 (amended): in that second run identity creation surfaces a name collision,
\* bucket creation surfaces one or is accepted by the provider without effect,
\* queue creation surfaces none (the provider returns the existing queue) and
\* access binding and event wiring succeed; the provider state is, at every point
\* of the second run, the state after the first run.
C5_SecondRunChangesNothing ==
    /\ C5_SecondRun => provider = prev.provider
    /\ C5_SecondRunEnded =>
          /\ outcome[1] \in {"NameCollision", "ok"}
          /\ outcome[2] = "ok" /\ outcome[3] = "ok" /\ outcome[4] = "ok"
          /\ outcome[5] = "NameCollision"

C5_Witness ==
    /\ C5_SecondRunEnded
    /\ outcome[1] = "NameCollision"
    /\ outcome[5] = "NameCollision"
    /\ Cardinality(AllKeys) = 1

\* C6: the secret of every access key is emitted exactly once, by the run that
\* minted it, in the print that directly follows the minting call; it is never
\* emitted again, by that run or a later one, and nothing else is emitted.
C6_SecretEmittedOnce ==
    /\ \A k \in AllKeys :
          Count(emitted, k.SecretAccessKey)
             = IF pc = "print_access_key" /\ access_key = k THEN 0 ELSE 1
    /\ \A i \in 1..Len(emitted) : \E k \in AllKeys : emitted[i] = k.SecretAccessKey

C6_Witness ==
    /\ runs >= 2
    /\ pc = "done"
    /\ access_key = NoKey
    /\ Len(emitted) = 1
    /\ \E k \in AllKeys : emitted[1] = k.SecretAccessKey

\* C7: every policy the access binder installed on a queue has one statement,
\* whose resource is the resolved identifier of the queue it is installed on and
\* whose condition is present and names the configured bucket's full resource
\* name, without a wildcard.
C7_QueuePolicyScoped ==
    \A u \in DOMAIN queues :
        queues[u].Policy # None =>
            LET st == json_loads(queues[u].Policy).Statement IN
            /\ Len(st) = 1
            /\ st[1].Resource = queues[u].QueueArn
            /\ "Condition" \in DOMAIN st[1]
            /\ st[1].Condition.ArnLike.SourceArn = BucketArn(BUCKET_NAME)
            /\ \A i \in 1..6 : st[1].Condition.ArnLike.SourceArn[i] # "*"

C7_Witness ==
    /\ pc = "s3.put_bucket_notification_configuration"
    /\ queues[attach_url].Policy # None
    /\ \E u \in DOMAIN queues : u # attach_url /\ queues[u].Policy # None

\* C8: every identity policy grants exactly the declared actions, on the objects
\* of the configured bucket and on the configured queue: the queue resource is
\* the resolved identifier of an existing queue and has no wildcard segment.
C8_IdentityPolicyScoped ==
    \A p \in DOMAIN policies :
        LET st == json_loads(policies[p]).Statement IN
        /\ Len(st) = 2
        /\ st[1].Action \cup st[2].Action
              = {"s3:GetObject", "s3:PutObject", "sqs:ReceiveMessage",
                 "sqs:DeleteMessage", "sqs:GetQueueAttributes"}
        /\ st[1].Resource = <<"arn", "aws", "s3", "", "", BUCKET_NAME \o "/*">>
        /\ \E u \in DOMAIN queues : st[2].Resource = queues[u].QueueArn
        /\ \A i \in 1..6 : st[2].Resource[i] # "*"

\* C9: once event wiring was applied, the bucket's notification configuration
\* holds exactly one queue mapping, for object-created events, referencing the
\* identifier passed to the latest successful application.  The configuration is
\* thus a function of that identifier alone: an earlier identifier leaves no
\* trace, and applying the same identifier again changes nothing.
C9_OneMappingLatestQueue ==
    wired # None =>
        /\ BUCKET_NAME \in DOMAIN buckets
        /\ Len(QueueMappings(buckets[BUCKET_NAME])) = 1
        /\ QueueMappings(buckets[BUCKET_NAME])[1].QueueArn = wired
        /\ QueueMappings(buckets[BUCKET_NAME])[1].Events = {"s3:ObjectCreated:*"}

C9_Witness ==
    /\ pc = "iam.create_user"
    /\ wired = queue_arn
    /\ BUCKET_NAME \in DOMAIN prev.provider.buckets
    /\ Len(QueueMappings(prev.provider.buckets[BUCKET_NAME])) = 1
    /\ QueueMappings(prev.provider.buckets[BUCKET_NAME])[1].QueueArn # wired

\* C10: the create-bucket request carries a location constraint equal to the
\* region when the region is not the default one, and none when it is.
C10_LocationConstraint ==
    \A i \in 1..Len(requests) :
        IF AWS_REGION = DefaultRegion
        THEN "CreateBucketConfiguration" \notin DOMAIN requests[i]
        ELSE /\ "CreateBucketConfiguration" \in DOMAIN requests[i]
             /\ requests[i].CreateBucketConfiguration.LocationConstraint = AWS_REGION

C10_Witness ==
    /\ Len(requests) = 1
    /\ AWS_REGION # DefaultRegion
    /\ BUCKET_NAME \in DOMAIN buckets
    /\ buckets[BUCKET_NAME].Location = AWS_REGION
    /\ outcome[1] = "ok"

\* C11: no step deletes or rolls back anything: in every step of every run the
\* sets of buckets, queues, identities, identity policies, attachments and
\* access keys only grow, and a step in which a remote call fails leaves the
\* provider exactly as it was, so what earlier steps created stays in place.
C11_Grows ==
    /\ DOMAIN buckets \subseteq DOMAIN buckets'
    /\ DOMAIN queues \subseteq DOMAIN queues'
    /\ DOMAIN users \subseteq DOMAIN users'
    /\ DOMAIN policies \subseteq DOMAIN policies'
    /\ \A u \in DOMAIN users :
          /\ users[u].AttachedPolicies \subseteq users'[u].AttachedPolicies
          /\ users[u].AccessKeys \subseteq users'[u].AccessKeys

C11_NothingDeleted ==
    [][/\ C11_Grows
       /\ (Failed' # Failed /\ runs' = runs) => provider' = provider]_vars

C11_Witness ==
    /\ pc = "done"
    /\ outcome[5] = "Error"
    /\ IAM_USER_NAME \in DOMAIN users
    /\ DOMAIN policies # {}
    /\ users[IAM_USER_NAME].AccessKeys = {}
    /\ BUCKET_NAME \in DOMAIN buckets
    /\ CurrentQueueUrl \in DOMAIN queues

\* C12: access binding and event wiring only ever run with a queue identifier
\* that a successful attribute lookup returned earlier in the same run (main's
\* queue_arn, the identifier of the queue at main's queue_url); no queue policy
\* and no notification configuration is written with an undefined identifier.
\* After a failed queue-creation step neither of the two steps runs at all.
C12_InBindingOrWiring ==
    \/ caller = "attach_sqs_policy"
    \/ pc \in {"sqs.set_queue_attributes", "s3.put_bucket_notification_configuration"}
    \/ 3 \in issued
    \/ 4 \in issued

C12_IdentifierResolved ==
    /\ C12_InBindingOrWiring =>
          /\ outcome[2] = "ok"
          /\ queue_arn # None
          /\ queue_url \in DOMAIN queues
          /\ queue_arn = queues[queue_url].QueueArn
    /\ \A u \in DOMAIN queues :
          queues[u].Policy # None => json_loads(queues[u].Policy).Statement[1].Resource # None
    /\ \A b \in DOMAIN buckets :
          \A i \in 1..Len(QueueMappings(buckets[b])) : QueueMappings(buckets[b])[i].QueueArn # None
    /\ 2 \in Failed => (pc = "aborted" /\ issued \cap {3, 4, 5} = {})

C12_Witness ==
    /\ runs >= 2
    /\ pc = "iam.create_user"
    /\ outcome[4] = "ok"
    /\ wired = queue_arn
    /\ queues[queue_url].Policy # None
    /\ prev.provider.queues = <<>>

\* C13: the access binder calls create_sqs_queue itself (creation and lookup a
\* second time in the run) and writes the policy at the address that call
\* returned; when that second call fails the queue policies stay as they were
\* when the run started and neither event wiring nor identity provisioning runs.
PolicyOf(qs, u) == IF u \in DOMAIN qs THEN qs[u].Policy ELSE None

C13_SecondCallFailed ==
    /\ caller = "attach_sqs_policy"
    /\ 3 \in Failed
    /\ attach_url = None

C13_BinderCreatesQueueAgain ==
    /\ pc = "sqs.set_queue_attributes" =>
          /\ caller = "attach_sqs_policy"
          /\ 3 \in issued
          /\ attach_url # None
          /\ attach_url = response_url
          /\ attach_url \in DOMAIN queues
    /\ outcome[3] = "ok" =>
          /\ attach_url # None
          /\ queues[attach_url].Policy = json_dumps(sqs_policy(queue_arn))
          /\ \A u \in DOMAIN queues \ {attach_url} :
                queues[u].Policy = PolicyOf(prev.provider.queues, u)
    /\ C13_SecondCallFailed =>
          /\ pc = "aborted"
          /\ issued \cap {4, 5} = {}
          /\ \A u \in DOMAIN queues : queues[u].Policy = PolicyOf(prev.provider.queues, u)

C13_Witness ==
    /\ C13_SecondCallFailed
    /\ outcome[2] = "ok"
    /\ pc = "aborted"
    /\ queues[queue_url].Policy = None

\* C14: when a run starts with the identity already there but without an
\* attached policy or without an access key (an earlier run's identity step
\* failed after create_user), the run never gets past create_user: the call is
\* answered with a name collision (or fails for an outside reason), no policy is
\* created or attached, no key is minted, and the identity is, at every point of
\* the run, what it was at its start.  As the identity is unchanged when the run
\* ends, the same holds for every later run.
C14_StrandedIdentity ==
    /\ IAM_USER_NAME \in DOMAIN prev.provider.users
    /\ \/ prev.provider.users[IAM_USER_NAME].AccessKeys = {}
       \/ prev.provider.users[IAM_USER_NAME].AttachedPolicies = {}

C14_StaysWithoutCredentials ==
    C14_StrandedIdentity =>
        /\ IAM_USER_NAME \in DOMAIN users
        /\ users[IAM_USER_NAME] = prev.provider.users[IAM_USER_NAME]
        /\ DOMAIN policies = DOMAIN prev.provider.policies
        /\ users[IAM_USER_NAME].AccessKeys = {}
        /\ access_key = NoKey
        /\ policy_arn = None
        /\ pc \notin {"iam.create_policy", "iam.attach_user_policy",
                      "iam.create_access_key", "print_access_key"}
        /\ outcome[5] \in {"pending", "NameCollision", "Error"}
        /\ (5 \in issued /\ pc # "iam.create_user") => outcome[5] \in {"NameCollision", "Error"}

C14_Witness ==
    /\ C14_StrandedIdentity
    /\ runs >= 3
    /\ pc = "done"
    /\ outcome[5] = "NameCollision"
    /\ DOMAIN policies # {}
    /\ users[IAM_USER_NAME].AttachedPolicies = {}

\* C15: within a run the notification configuration is written (the call is
\* issued at all) only after the queue policy was set successfully in that run,
\* and identity creation is attempted only after the notification configuration
\* was written successfully in that run.
C15_StepsInOrder ==
    /\ (4 \in issued \/ pc = "s3.put_bucket_notification_configuration") =>
          /\ outcome[3] = "ok"
          /\ queues[attach_url].Policy = json_dumps(sqs_policy(queue_arn))
    /\ (5 \in issued \/ pc = "iam.create_user") =>
          /\ outcome[3] = "ok"
          /\ outcome[4] = "ok"
          /\ wired = queue_arn
    /\ \A i \in 1..Len(invoked) : \A j \in 1..Len(invoked) :
          i < j => StepNo(invoked[i]) < StepNo(invoked[j])

C15_Witness ==
    /\ pc = "iam.create_policy"
    /\ issued = {1, 2, 3, 4, 5}
    /\ outcome[1] = "NameCollision"
    /\ outcome[4] = "ok"

\* C16: in every reachable state an access key of the identity exists only if a
\* policy is attached to the identity, and every attached policy exists.  (The
\* attachments and keys are part of the identity's record: they exist only if the
\* identity does.)
C16_KeyOnlyWithAttachedPolicy ==
    \A u \in DOMAIN users :
        /\ users[u].AccessKeys # {} =>
              /\ PolicyArnOf(IAM_POLICY_NAME) \in DOMAIN policies
              /\ PolicyArnOf(IAM_POLICY_NAME) \in users[u].AttachedPolicies
        /\ users[u].AttachedPolicies \subseteq DOMAIN policies

C16_Witness ==
    /\ pc = "print_access_key"
    /\ users[IAM_USER_NAME].AccessKeys = {access_key}
    /\ users[IAM_USER_NAME].AttachedPolicies = {policy_arn}

\* C17: a run prints the final line only if queue creation, access binding and
\* event wiring all succeeded in it, and a run in which these three succeeded
\* ends with the final line printed whatever bucket creation and identity
\* provisioning did.
C17_Steps2to4Succeeded == \A s \in {2, 3, 4} : outcome[s] = "ok"

C17_CompletionReported ==
    /\ complete => C17_Steps2to4Succeeded
    /\ (RunEnded /\ C17_Steps2to4Succeeded) => complete
    /\ pc = "aborted" => ~complete

C17_Witness ==
    /\ complete
    /\ pc = "done"
    /\ outcome[1] = "Error"
    /\ outcome[5] = "Error"

====
